---- MODULE Spec2Model ----
(***************************************************************************)
(* Model of streamlit_integration.py: a Streamlit script that lists the    *)
(* accounts, lets the user pick or type an account id, calls the stored    *)
(* procedure GENERATE_ACCOUNT_POWERPOINT and parses its text result.       *)
(*                                                                         *)
(* Strings are sequences of one-character strings, so that split, strip,   *)
(* lower and the `in` test are computed character by character.  A Python  *)
(* value that may be None is a sequence of length 0 (None) or 1 (a value). *)
(* One execution of the script is split where it blocks on the procedure   *)
(* call: RunScript is lines 46-125 (and 211-262 when no call is made),     *)
(* ProcedureReturns is lines 128-262.                                      *)
(***************************************************************************)
EXTENDS Naturals, Sequences, FiniteSets

VARIABLES
    pc,                \* "run": a rerun is due; "calling": blocked in the call; "idle": page shown
    sel_state,         \* the selectbox's widget state: the options it was chosen from, the index
    text_state,        \* the text input's widget state: the default it was typed over, the text
    clicked,           \* the button was clicked and the rerun has not consumed the click yet
    accounts_df,       \* None when the name is not bound, else the rows of the query
    account_options,
    selected_account,
    account_id,
    account_details,
    manual_account_id,
    final_account_id,
    generate_button,
    disabled,
    calls,             \* the arguments of the procedure calls issued by the current run
    result_message,
    file_name,
    url,
    snowsql_command,
    shown_text,        \* the content of the text area rendered by the current run
    out                \* the elements rendered by the current run

vars ==
    <<pc, sel_state, text_state, clicked, accounts_df, account_options,
      selected_account, account_id, account_details, manual_account_id,
      final_account_id, generate_button, disabled, calls, result_message,
      file_name, url, snowsql_command, shown_text, out>>

----------------------------------------------------------------------------
(* Bounds                                                                   *)

MaxPieces ==
    3

MaxRows ==
    2

----------------------------------------------------------------------------
(* Python values                                                            *)

None ==
    <<>>

Some(v) ==
    <<v>>

EmptyStr ==
    <<>>

\* Python truthiness of a value that is None or a string.
Truthy(o) ==
    o # None /\ o[1] # EmptyStr

----------------------------------------------------------------------------
(* String literals of the script                                            *)

SEP ==
    <<" ","-"," ">>

SUCCESS_WORD ==
    <<"s","u","c","c","e","s","s","f","u","l","l","y">>

FILE_MARKER ==
    <<"F","i","l","e",":">>

PIPE ==
    <<"|">>

URL_CHECK ==
    <<"D","o","w","n","l","o","a","d"," ","U","R","L">>

URL_MARKER ==
    <<"D","o","w","n","l","o","a","d"," ","U","R","L"," ","(","v","a","l","i","d"," ","f","o","r"," ","2","4"," ","h","o","u","r","s",")",":">>

GET_PREFIX ==
    <<"G","E","T"," ","@","P","O","W","E","R","P","O","I","N","T","_","D","B",".","R","E","P","O","R","T","I","N","G",".","P","P","T","_","S","T","A","G","E","/">>

GET_SUFFIX ==
    <<" ","f","i","l","e",":","/","/",".","/",";">>

----------------------------------------------------------------------------
(* Python string operations                                                 *)

UpperAlpha ==
    <<"A","B","C","D","E","F","G","H","I","J","K","L","M",
      "N","O","P","Q","R","S","T","U","V","W","X","Y","Z">>

LowerAlpha ==
    <<"a","b","c","d","e","f","g","h","i","j","k","l","m",
      "n","o","p","q","r","s","t","u","v","w","x","y","z">>

LowerChar(c) ==
    IF \E k \in 1..Len(UpperAlpha) : UpperAlpha[k] = c
    THEN LowerAlpha[CHOOSE k \in 1..Len(UpperAlpha) : UpperAlpha[k] = c]
    ELSE c

\* str.lower()
Lower(s) ==
    [i \in 1..Len(s) |-> LowerChar(s[i])]

IsSpace(c) ==
    c \in {" ", "\t", "\n", "\r"}

\* str.lstrip()
RECURSIVE LStrip(_)
LStrip(s) ==
    IF s # EmptyStr /\ IsSpace(s[1]) THEN LStrip(Tail(s)) ELSE s

\* str.rstrip()
RECURSIVE RStrip(_)
RStrip(s) ==
    IF s # EmptyStr /\ IsSpace(s[Len(s)]) THEN RStrip(SubSeq(s, 1, Len(s) - 1)) ELSE s

\* str.strip()
Strip(s) ==
    RStrip(LStrip(s))

\* Whether sub occurs in s at position i.
OccursAt(s, sub, i) ==
    /\ i + Len(sub) - 1 <= Len(s)
    /\ \A k \in 1..Len(sub) : s[i + k - 1] = sub[k]

\* str.find(sub, from - 1) + 1: the position of the first occurrence of sub at or
\* after position from, 0 when there is none.
RECURSIVE FindFrom(_, _, _)
FindFrom(s, sub, from) ==
    IF from + Len(sub) - 1 > Len(s) THEN 0
    ELSE IF OccursAt(s, sub, from) THEN from
    ELSE FindFrom(s, sub, from + 1)

Find(s, sub) ==
    FindFrom(s, sub, 1)

\* sub in s
Contains(s, sub) ==
    Find(s, sub) # 0

\* str.split(sep): the pieces between the occurrences of sep, scanned from the left.
RECURSIVE Split(_, _)
Split(s, sep) ==
    LET i == Find(s, sep)
    IN  IF i = 0 THEN <<s>>
        ELSE <<SubSeq(s, 1, i - 1)>> \o Split(SubSeq(s, i + Len(sep), Len(s)), sep)

----------------------------------------------------------------------------
(* The account selector (lines 46-98)                                       *)

\* f"{row['ACCOUNT_ID']} - {row['ACCOUNT_NAME']}"
Label(row) ==
    row.ACCOUNT_ID \o SEP \o row.ACCOUNT_NAME

AccountOptions(df) ==
    [i \in 1..Len(df) |-> Label(df[i])]

\* st.selectbox(options, index=0): the user's choice while it was made among these
\* options, else the first option; None when there is no option.
SelectboxIndex(options, state) ==
    IF state.options = options /\ state.index \in 1..Len(options)
    THEN state.index ELSE 1

Selectbox(options, state) ==
    IF options = <<>> THEN None ELSE Some(options[SelectboxIndex(options, state)])

\* selected_account.split(' - ')[0]
AccountIdOf(selected) ==
    Split(selected, SEP)[1]

\* The try block of lines 50-85.  q is the outcome of the accounts query.
LoadAccounts(q, state) ==
    IF q.kind = "fail"
    THEN [accounts_df |-> None, account_options |-> <<>>, selected_account |-> None,
          account_id |-> None, out |-> {"load_error", "load_info"}]
    ELSE LET options  == AccountOptions(q.rows)
             selected == Selectbox(options, state)
         IN  IF selected = None
             THEN \* None has no split: AttributeError, caught at line 82
                  [accounts_df |-> Some(q.rows), account_options |-> options,
                   selected_account |-> None, account_id |-> None,
                   out |-> {"dataframe", "selectbox", "load_error", "load_info"}]
             ELSE [accounts_df |-> Some(q.rows), account_options |-> options,
                   selected_account |-> selected,
                   account_id |-> Some(AccountIdOf(selected[1])),
                   out |-> {"dataframe", "selectbox"}]

\* accounts_df[accounts_df['ACCOUNT_ID'] == account_id]
MatchingRows(df, id) ==
    LET Hit(row) == row.ACCOUNT_ID = id
    IN  SelectSeq(df, Hit)

\* Lines 90-98.  raised: .iloc[0] of an empty frame raises IndexError, and no
\* handler encloses line 92.  The five st.metric calls are one element, "details";
\* the formatting of their values is not modelled.
AccountDetails(id, df) ==
    IF Truthy(id) /\ df # None
    THEN LET hits == MatchingRows(df[1], id[1])
         IN  IF hits = <<>>
             THEN [raised |-> TRUE, account_details |-> None, out |-> {"details_header"}]
             ELSE [raised |-> FALSE, account_details |-> Some(hits[1]),
                   out |-> {"details_header", "details"}]
    ELSE [raised |-> FALSE, account_details |-> None, out |-> {"details_header"}]

----------------------------------------------------------------------------
(* The manual override and the button (lines 100-124)                       *)

ManualDefaultPlaceholder(id) ==
    IF Truthy(id) THEN id[1] ELSE <<"A","C","C","0","0","1">>

\* value=account_id if account_id else ""
ManualDefault(id) ==
    IF Truthy(id) THEN id[1] ELSE EmptyStr

\* st.text_input: the typed text while the default is the one it was typed over,
\* else the default.
TextInput(default, state) ==
    IF state.default = default THEN state.value ELSE default

FinalAccountIdDropdownFirst(manual, id) ==
    IF Truthy(id) THEN id ELSE Some(manual)

\* manual_account_id if manual_account_id else account_id
FinalAccountId(manual, id) ==
    IF manual # EmptyStr THEN Some(manual) ELSE id

\* disabled=not final_account_id
ButtonDisabled(final) ==
    ~Truthy(final)

CallGuardNoClick(button, final) ==
    Truthy(final)

\* if generate_button and final_account_id:
CallGuard(button, final) ==
    button /\ Truthy(final)

----------------------------------------------------------------------------
(* The generate handler (lines 126-209)                                     *)

IsSuccessCaseSensitive(msg) ==
    Contains(msg, SUCCESS_WORD)

\* "successfully" in result_message.lower()
IsSuccess(msg) ==
    Contains(Lower(msg), SUCCESS_WORD)

\* result_message.split("File:")[1].split("|")[0].strip()
ExtractFileName(msg) ==
    Strip(Split(Split(msg, FILE_MARKER)[2], PIPE)[1])

\* f"GET @POWERPOINT_DB.REPORTING.PPT_STAGE/{file_name} file://./;"
SnowsqlCommand(name) ==
    GET_PREFIX \o name \o GET_SUFFIX

NoResult ==
    [result_message |-> None, file_name |-> None, url |-> None,
     snowsql_command |-> None, shown_text |-> None, out |-> {}]

\* The except branch of lines 177-209, entered with what r has rendered and bound.
\* diagOk: the two diagnostic queries of lines 201-202 succeed.
ExceptBranch(r, diagOk) ==
    [r EXCEPT !.out = @ \cup {"gen_error", "troubleshooting"}
                        \cup (IF diagOk THEN {"session_settings"}
                                        ELSE {"session_warning"})]

\* Lines 139-171, entered once the success banner is shown.
SuccessBranch(msg, diagOk) ==
    LET r1 == [NoResult EXCEPT !.result_message = Some(msg), !.out = {"success"}]
        r2 == IF Contains(msg, FILE_MARKER)
              THEN [r1 EXCEPT !.file_name = Some(ExtractFileName(msg)),
                              !.out = @ \cup {"file_info"}]
              ELSE r1
    IN  IF Contains(msg, URL_CHECK)
        THEN LET parts == Split(msg, URL_MARKER)
             IN  IF Len(parts) < 2
                 THEN \* [1] of a one-element list: IndexError
                      ExceptBranch(r2, diagOk)
                 ELSE LET r3 == [r2 EXCEPT !.url = Some(Strip(parts[2])),
                                           !.out = @ \cup {"download_header",
                                               "download_link", "url_code",
                                               "snowsql_header"}]
                      IN  IF r3.file_name = None
                          THEN \* file_name is not bound: NameError at line 165
                               ExceptBranch(r3, diagOk)
                          ELSE [r3 EXCEPT !.snowsql_command =
                                              Some(SnowsqlCommand(r3.file_name[1])),
                                          !.out = @ \cup {"snowsql_code", "tip"}]
        ELSE [r2 EXCEPT !.shown_text = Some(msg), !.out = @ \cup {"result_text"}]

\* Lines 126-209.  outcome is what session.sql(...).collect() does: it raises, or
\* returns no row, or a row holding NULL, or a row holding a string.
Handler(outcome, diagOk) ==
    IF outcome.kind \in {"raise", "norows", "null"}
    THEN ExceptBranch(NoResult, diagOk)
    ELSE IF IsSuccess(outcome.msg)
         THEN SuccessBranch(outcome.msg, diagOk)
         ELSE [NoResult EXCEPT !.result_message = Some(outcome.msg),
                               !.shown_text = Some(outcome.msg),
                               !.out = {"failed", "error_details"}]

\* Lines 211-262: the footer and the sidebar.  The sidebar's three session queries
\* sit in a try whose except passes, so their failure changes nothing but the
\* three lines of session text, which are not tracked.
Bottom ==
    {"footer", "sidebar"}

----------------------------------------------------------------------------
(* Inputs                                                                   *)

PieceSuccess ==
    <<"G","e","n","e","r","a","t","e","d"," ","S","u","c","c","e","s","s","f","u","l","l","y","."," ">>

PieceFile ==
    <<"F","i","l","e",":"," ","A","c","m","e","_","2","0","2","4","1","0","2","7",".","p","p","t","x"," ","|"," ">>

PieceUrl ==
    <<"D","o","w","n","l","o","a","d"," ","U","R","L"," ","(","v","a","l","i","d"," ","f","o","r"," ","2","4"," ","h","o","u","r","s",")",":"," ","h","t","t","p","s",":","/","/","x"," ">>

PieceFileColon ==
    <<"F","i","l","e",":"," ","M","y","F","i","l","e",":","v","2",".","p","p","t","x"," ","|"," ">>

PieceShortUrl ==
    <<"D","o","w","n","l","o","a","d"," ","U","R","L",":"," ","h","t","t","p","s",":","/","/","x">>

PieceError ==
    <<"E","r","r","o","r",":"," ","a","c","c","o","u","n","t"," ","n","o","t"," ","f","o","u","n","d">>

IdAcc1 ==
    <<"A","C","C","0","0","1">>

IdDash ==
    <<"A"," ","-"," ","1">>

IdAcc2 ==
    <<"A","C","C","0","0","2">>

NameAcme ==
    <<"A","c","m","e">>

NameBeta ==
    <<"B","e","t","a"," ","-"," ","W","e","s","t">>

NameCore ==
    <<"C","o","r","e">>

TypedX ==
    <<"X","9">>

ExampleName ==
    <<"A","c","m","e","_","2","0","2","4","1","0","2","7",".","p","p","t","x">>

ExampleUrl ==
    <<"h","t","t","p","s",":","/","/","x">>

Pieces ==
    {PieceSuccess, PieceFile, PieceFileColon, PieceUrl, PieceShortUrl, PieceError}

\* The texts made of at most n pieces.
RECURSIVE Texts(_)
Texts(n) ==
    IF n = 0 THEN {EmptyStr}
    ELSE Texts(n - 1) \cup {t \o p : t \in Texts(n - 1), p \in Pieces}

Messages ==
    Texts(MaxPieces)

CallOutcomes ==
    {[kind |-> "raise", msg |-> EmptyStr], [kind |-> "norows", msg |-> EmptyStr],
     [kind |-> "null", msg |-> EmptyStr]}
    \cup {[kind |-> "str", msg |-> m] : m \in Messages}

\* Candidate rows of ACCOUNTS, in the order of ORDER BY ACCOUNT_NAME.
Catalog ==
    <<[ACCOUNT_ID |-> IdAcc1, ACCOUNT_NAME |-> NameAcme],
      [ACCOUNT_ID |-> IdDash, ACCOUNT_NAME |-> NameBeta],
      [ACCOUNT_ID |-> IdAcc2, ACCOUNT_NAME |-> NameCore]>>

\* The rows of Catalog at the positions S, in Catalog's order.
RowsAt(S) ==
    LET Keep(row) == \E i \in S : Catalog[i] = row
    IN  SelectSeq(Catalog, Keep)

QueryOutcomes ==
    {[kind |-> "fail", rows |-> <<>>]}
    \cup {[kind |-> "rows", rows |-> RowsAt(S)] :
             S \in {T \in SUBSET (1..Len(Catalog)) : Cardinality(T) <= MaxRows}}

\* Handler, computed once for each outcome of the call.
HandlerTable ==
    [o \in CallOutcomes, d \in BOOLEAN |-> Handler(o, d)]

TypedTexts ==
    {EmptyStr, TypedX}

----------------------------------------------------------------------------
(* State machine                                                            *)

\* Every name of the script is unbound and nothing is rendered: the state in
\* which an execution of the script starts.
FreshPage ==
    /\ accounts_df' = None
    /\ account_options' = <<>>
    /\ selected_account' = None
    /\ account_id' = None
    /\ account_details' = None
    /\ manual_account_id' = EmptyStr
    /\ final_account_id' = None
    /\ generate_button' = FALSE
    /\ disabled' = TRUE
    /\ calls' = <<>>
    /\ result_message' = None
    /\ file_name' = None
    /\ url' = None
    /\ snowsql_command' = None
    /\ shown_text' = None
    /\ out' = {}

NoSelection ==
    [options |-> <<>>, index |-> 1]

NoText ==
    [default |-> EmptyStr, value |-> EmptyStr]

\* The first execution of the script is due; no widget has been touched.
Init ==
    /\ pc = "run"
    /\ sel_state = NoSelection
    /\ text_state = NoText
    /\ clicked = FALSE
    /\ accounts_df = None
    /\ account_options = <<>>
    /\ selected_account = None
    /\ account_id = None
    /\ account_details = None
    /\ manual_account_id = EmptyStr
    /\ final_account_id = None
    /\ generate_button = FALSE
    /\ disabled = TRUE
    /\ calls = <<>>
    /\ result_message = None
    /\ file_name = None
    /\ url = None
    /\ snowsql_command = None
    /\ shown_text = None
    /\ out = {}

\* One execution of the script from line 22 up to the procedure call, or to the
\* end of the script when no call is made, or to the uncaught exception of line 92.
\* A widget keeps its state only while the script renders it.
RunScript(q) ==
    /\ pc = "run"
    /\ LET load    == LoadAccounts(q, sel_state)
           details == AccountDetails(load.account_id, load.accounts_df)
           default == ManualDefault(load.account_id)
           manual  == TextInput(default, text_state)
           final   == FinalAccountId(manual, load.account_id)
           top     == load.out \cup details.out
       IN  /\ accounts_df' = load.accounts_df
           /\ account_options' = load.account_options
           /\ selected_account' = load.selected_account
           /\ account_id' = load.account_id
           /\ account_details' = details.account_details
           /\ sel_state' = IF load.selected_account = None THEN NoSelection
                           ELSE [options |-> load.account_options,
                                 index |-> SelectboxIndex(load.account_options,
                                                          sel_state)]
           /\ clicked' = FALSE
           /\ UNCHANGED <<result_message, file_name, url, snowsql_command,
                          shown_text>>
           /\ IF details.raised
              THEN \* the script stops at line 92; nothing below it is executed
                   /\ text_state' = NoText
                   /\ UNCHANGED <<manual_account_id, final_account_id,
                                  generate_button, disabled, calls>>
                   /\ out' = top \cup {"uncaught_exception"}
                   /\ pc' = "idle"
              ELSE /\ text_state' = [default |-> default, value |-> manual]
                   /\ manual_account_id' = manual
                   /\ final_account_id' = final
                   /\ generate_button' = clicked
                   /\ disabled' = ButtonDisabled(final)
                   /\ IF CallGuard(clicked, final)
                      THEN /\ calls' = <<final[1]>>
                           /\ out' = top \cup {"text_input", "button", "spinner"}
                           /\ pc' = "calling"
                      ELSE /\ calls' = <<>>
                           /\ out' = top \cup {"text_input", "button"}
                                         \cup Bottom
                           /\ pc' = "idle"

\* The procedure call of lines 128-130 ends; the script runs on to its last line.
ProcedureReturns(outcome, diagOk) ==
    /\ pc = "calling"
    /\ LET r == HandlerTable[outcome, diagOk]
       IN  /\ result_message' = r.result_message
           /\ file_name' = r.file_name
           /\ url' = r.url
           /\ snowsql_command' = r.snowsql_command
           /\ shown_text' = r.shown_text
           /\ out' = (out \ {"spinner"}) \cup r.out \cup Bottom
    /\ pc' = "idle"
    /\ UNCHANGED <<sel_state, text_state, clicked, accounts_df, account_options,
                   selected_account, account_id, account_details,
                   manual_account_id, final_account_id, generate_button,
                   disabled, calls>>

\* The user picks another entry of the dropdown; the script is run again.
SelectAccount(i) ==
    /\ pc = "idle"
    /\ "selectbox" \in out
    /\ i \in 1..Len(account_options)
    /\ i # sel_state.index
    /\ sel_state' = [options |-> account_options, index |-> i]
    /\ pc' = "run"
    /\ FreshPage
    /\ UNCHANGED <<text_state, clicked>>

\* The user edits the manual account id; the script is run again.
TypeManual(t) ==
    /\ pc = "idle"
    /\ "text_input" \in out
    /\ t # manual_account_id
    /\ text_state' = [text_state EXCEPT !.value = t]
    /\ pc' = "run"
    /\ FreshPage
    /\ UNCHANGED <<sel_state, clicked>>

\* The user clicks the button, which the page shows enabled; the script is run again.
ClickGenerate ==
    /\ pc = "idle"
    /\ "button" \in out
    /\ ~disabled
    /\ clicked' = TRUE
    /\ pc' = "run"
    /\ FreshPage
    /\ UNCHANGED <<sel_state, text_state>>

\* The user reloads the page: a new session, every widget back to its default.
Reload ==
    /\ pc = "idle"
    /\ pc' = "run"
    /\ sel_state' = NoSelection
    /\ text_state' = NoText
    /\ clicked' = FALSE
    /\ FreshPage

Next ==
    \/ \E q \in QueryOutcomes : RunScript(q)
    \/ \E o \in CallOutcomes, diagOk \in BOOLEAN : ProcedureReturns(o, diagOk)
    \/ \E i \in 1..Len(Catalog) : SelectAccount(i)
    \/ \E t \in TypedTexts : TypeManual(t)
    \/ ClickGenerate
    \/ Reload

Spec ==
    Init /\ [][Next]_vars

----------------------------------------------------------------------------
(* Properties                                                               *)

\* The elements that show the result of a procedure call.
ResultTags ==
    {"success", "file_info", "download_header", "download_link", "url_code",
     "snowsql_header", "snowsql_code", "tip", "result_text", "failed",
     "error_details", "gen_error", "troubleshooting", "session_settings",
     "session_warning"}

\* A run that called the procedure has ended.
CallEnded ==
    pc = "idle" /\ calls # <<>>

\* word occurs in msg when upper-case letters are read as lower-case ones.
HasWordIgnoringCase(msg, word) ==
    \E i \in 1..Len(msg) :
        /\ i + Len(word) - 1 <= Len(msg)
        /\ \A k \in 1..Len(word) : LowerChar(msg[i + k - 1]) = word[k]

SaysSuccessfully ==
    [m \in Messages |-> HasWordIgnoringCase(m, SUCCESS_WORD)]

\* C1: for every message the call returns, the success banner is shown exactly
\* when the message holds "successfully" in any letter case; otherwise the failure
\* banner is shown with the raw message as error details, and neither a file name
\* nor a URL is extracted.
C1_Classification ==
    (CallEnded /\ result_message # None) =>
        LET msg == result_message[1]
        IN  /\ ("success" \in out) <=> SaysSuccessfully[msg]
            /\ ("failed" \in out) <=> ~SaysSuccessfully[msg]
            /\ ~SaysSuccessfully[msg] =>
                   /\ "error_details" \in out
                   /\ shown_text = Some(msg)
                   /\ file_name = None
                   /\ url = None
                   /\ out \cap ResultTags = {"failed", "error_details"}

\* A message that holds the word only with a capital letter was classified a success.
C1_Witness ==
    /\ CallEnded
    /\ result_message # None
    /\ "success" \in out
    /\ ~Contains(result_message[1], SUCCESS_WORD)

\* C2: whenever the manual field is rendered, a non-empty field is the final
\* account id whatever the dropdown says, and an empty field leaves the
\* dropdown's account id as the final one.
C2_ManualOverride ==
    "text_input" \in out =>
        /\ manual_account_id # EmptyStr => final_account_id = Some(manual_account_id)
        /\ manual_account_id = EmptyStr => final_account_id = account_id

\* The manual field holds a text other than the account the dropdown selects.
C2_Witness ==
    /\ "text_input" \in out
    /\ Truthy(account_id)
    /\ manual_account_id # EmptyStr
    /\ account_id # Some(manual_account_id)
    /\ final_account_id = Some(manual_account_id)

\* C8: the procedure is called only in a run in which the button was clicked and
\* the final account id is not empty, once, with the final account id as its
\* argument; no result is rendered before the call has returned; the button is
\* disabled exactly when the final account id is empty.
C8_GenerationTrigger ==
    /\ Len(calls) <= 1
    /\ calls # <<>> => generate_button /\ Truthy(final_account_id)
                         /\ calls = <<final_account_id[1]>>
    /\ (pc # "run" /\ generate_button /\ Truthy(final_account_id)) => calls # <<>>
    /\ pc = "calling" => out \cap ResultTags = {} /\ result_message = None
    /\ out \cap ResultTags # {} => CallEnded
    /\ "button" \in out => (disabled <=> ~Truthy(final_account_id))

\* A click has called the procedure with a typed account id, and the file name and
\* the URL of its result are shown.
C8_Witness ==
    /\ CallEnded
    /\ calls = <<TypedX>>
    /\ "success" \in out
    /\ file_name = Some(ExampleName)
    /\ url = Some(ExampleUrl)
    /\ "snowsql_code" \in out

\* The accounts query of the current run failed or returned no row.
Degraded ==
    pc # "run" /\ (accounts_df = None \/ accounts_df = Some(<<>>))

\* C9: when the accounts query fails or returns no row, the loading error is
\* shown, account_id is None, no details are shown, the manual field has the empty
\* default and the button is disabled while the field is empty; with a non-empty
\* manual id a click calls the procedure with exactly that id.
C9_DegradedLoading ==
    Degraded =>
        /\ "load_error" \in out
        /\ account_id = None
        /\ "details" \notin out /\ account_details = None
        /\ "uncaught_exception" \notin out
        /\ text_state.default = EmptyStr
        /\ disabled <=> manual_account_id = EmptyStr
        /\ manual_account_id = EmptyStr => final_account_id = None /\ calls = <<>>
        /\ (generate_button /\ manual_account_id # EmptyStr) =>
               calls = <<manual_account_id>>

\* After a failed accounts query a typed id was sent to the procedure.
C9_Witness ==
    /\ Degraded
    /\ accounts_df = None
    /\ generate_button
    /\ calls = <<TypedX>>

\* The text of s after the first occurrence of marker (which occurs in s).
AfterFirst(s, marker) ==
    SubSeq(s, Find(s, marker) + Len(marker), Len(s))

\* The text of s before the first occurrence of marker, all of s when there is none.
BeforeFirst(s, marker) ==
    IF Contains(s, marker) THEN SubSeq(s, 1, Find(s, marker) - 1) ELSE s

\* msg holds "File: <name> | Download URL (valid for 24 hours): <url>": the first
\* "|" after the first "File:" is followed by the URL marker.
HasFilePattern(msg) ==
    /\ Contains(msg, FILE_MARKER)
    /\ LET rest == AfterFirst(msg, FILE_MARKER)
       IN  /\ Contains(rest, PIPE)
           /\ Find(rest, PIPE \o <<" ">> \o URL_MARKER) = Find(rest, PIPE)

\* C3: for every result message that holds "File: <name> | Download URL (valid for
\* 24 hours): <url>", the file name displayed is the text after the first "File:"
\* up to the next "|", without the surrounding whitespace.
C3_FileName ==
    (CallEnded /\ "file_info" \in out /\ HasFilePattern(result_message[1])) =>
        file_name = Some(Strip(BeforeFirst(AfterFirst(result_message[1],
                                                      FILE_MARKER), PIPE)))

\* C4: for every message classified a success that holds the marker "Download URL
\* (valid for 24 hours):", the URL extracted is all that follows the marker up to
\* the end of the message, without the surrounding whitespace.
C4_Url ==
    (CallEnded /\ "success" \in out /\ Contains(result_message[1], URL_MARKER)) =>
        url = Some(Strip(AfterFirst(result_message[1], URL_MARKER)))

\* C5: for every message classified a success in which the "File:" marker or the
\* "Download URL (valid for 24 hours):" marker is absent, the run shows the raw
\* message and does not end in the error outcome.
C5_Fallback ==
    (/\ CallEnded
     /\ "success" \in out
     /\ \/ ~Contains(result_message[1], FILE_MARKER)
        \/ ~Contains(result_message[1], URL_MARKER)) =>
        /\ "gen_error" \notin out
        /\ "result_text" \in out
        /\ shown_text = result_message

\* C6: every failure raised during a run is caught and shown inline, so every run
\* that ends has rendered the footer and the sidebar, and no call is repeated.
C6_AllCaught ==
    /\ pc = "idle" => /\ "uncaught_exception" \notin out
                      /\ "footer" \in out
                      /\ "sidebar" \in out
    /\ Len(calls) <= 1

\* C7: for every row the accounts query returns, splitting its dropdown label on
\* the first " - " gives back the row's ACCOUNT_ID, so the account id taken from
\* the selected label is the id of a row of the table.
C7_RoundTrip ==
    accounts_df # None =>
        /\ \A k \in 1..Len(accounts_df[1]) :
               AccountIdOf(Label(accounts_df[1][k])) = accounts_df[1][k].ACCOUNT_ID
        /\ account_id # None =>
               \E k \in 1..Len(accounts_df[1]) :
                   accounts_df[1][k].ACCOUNT_ID = account_id[1]

\* C10: every run that called the procedure ends in exactly one of the success
\* banner, the failure banner and the exception message, and the SnowSQL GET
\* command is rendered only with the file name taken from that run's message.
C10_OneOutcome ==
    CallEnded =>
        /\ Cardinality(out \cap {"success", "failed", "gen_error"}) = 1
        /\ "snowsql_code" \in out =>
               /\ file_name # None
               /\ snowsql_command = Some(SnowsqlCommand(file_name[1]))

====
